---- MODULE Spec2Model ----
(***************************************************************************)
(* Model of src/drawing/text.rs: draw_text_mut, calc_text and draw_text.   *)
(*                                                                         *)
(* Numbers.  i32/u32 are modelled as two's-complement words of Bits bits.  *)
(* f32 layout quantities (advance widths, kerning, glyph positions,        *)
(* outline boxes) are fixed-point numbers counted in half pixels; a        *)
(* coverage sample gv is counted in halves as well (0, 1, 2 for 0.0, 0.5,  *)
(* 1.0).  A font "at a scale" is a record of metrics and glyph outlines.   *)
(***************************************************************************)
EXTENDS Integers, Sequences, FiniteSets, TLC

VARIABLES font, text, x, y, width, height, color, debug,
          surf, pc, target, glyphs, gi, si, result, ret, done,
          written, accesses, skipped, drawVisited, calcVisited

vars == <<font, text, x, y, width, height, color, debug,
          surf, pc, target, glyphs, gi, si, result, ret, done,
          written, accesses, skipped, drawVisited, calcVisited>>

inputs == <<font, text, x, y, width, height, color, debug>>

(* ---------------------------- bounds ----------------------------------- *)
MaxLen == 2
Bits == 5

(* ---------------------------- machine integers ------------------------- *)
Pow2(n) == 2 ^ n
UMax == Pow2(Bits) - 1
IMax == Pow2(Bits - 1) - 1
IMin == 0 - Pow2(Bits - 1)

\* `v as i32` for an unsigned v: reinterpretation, never an error
AsI32(v) == IF v > IMax THEN v - Pow2(Bits) ELSE v
\* `v as u32` for a signed v
AsU32(v) == IF v < 0 THEN v + Pow2(Bits) ELSE v
\* the value a wrapping i32 addition leaves
WrapI32(n) == ((n - IMin) % Pow2(Bits)) + IMin
Overflows(n) == n < IMin \/ n > IMax

(* ---------------------------- f32 helpers (half pixels) ---------------- *)
Max(a, b) == IF a > b THEN a ELSE b
Min(a, b) == IF a < b THEN a ELSE b
\* f32::round: nearest integer, halves away from zero; result in half pixels
Round(h) == IF h >= 0 THEN 2 * ((h + 1) \div 2) ELSE 0 - 2 * ((1 - h) \div 2)
\* f32::floor / f32::ceil followed by `as i32`; result in whole pixels
Floor(h) == h \div 2
Ceil(h) == 0 - ((0 - h) \div 2)

(* ---------------------------- fonts ------------------------------------ *)
Chars == {"A", "B", " "}
None == <<>>

\* outline of a glyph: exact bounding box bb = <<x0, y0, x1, y1>> (x in half
\* pixels, y in pixel rows relative to the baseline) and the inked unit
\* cells <<cx, cy>> inside it; bb = None for a glyph without outline.
GlyphA(x0, inked) ==
  [bb |-> <<x0, -1, x0 + 2, 0>>, ink |-> IF inked THEN {<<0, 0>>} ELSE {}]
GlyphB(inked) ==
  [bb |-> <<0, -2, 4, 0>>,
   ink |-> IF inked THEN {<<0, 0>>, <<0, 1>>, <<1, 1>>} ELSE {}]
GlyphSpace == [bb |-> None, ink |-> {}]

NoKern == [p \in Chars \X Chars |-> 0]

Fonts ==
  { \* fractional advances, A-B kerned by half a pixel
    [ascent |-> 2,
     adv |-> [c \in Chars |-> CASE c = "A" -> 3 [] c = "B" -> 5 [] OTHER -> 2],
     kern |-> [NoKern EXCEPT ![<<"A", "B">>] = -1],
     glyph |-> [c \in Chars |-> CASE c = "A" -> GlyphA(0, TRUE)
                                  [] c = "B" -> GlyphB(TRUE)
                                  [] OTHER -> GlyphSpace]],
    \* whole-pixel advances, A-B kerned by one pixel, A overhangs to the left
    [ascent |-> 2,
     adv |-> [c \in Chars |-> CASE c = "A" -> 4 [] c = "B" -> 4 [] OTHER -> 2],
     kern |-> [NoKern EXCEPT ![<<"A", "B">>] = -2],
     glyph |-> [c \in Chars |-> CASE c = "A" -> GlyphA(-2, TRUE)
                                  [] c = "B" -> GlyphB(TRUE)
                                  [] OTHER -> GlyphSpace]],
    \* outlines whose every coverage sample is 0.0
    [ascent |-> 2,
     adv |-> [c \in Chars |-> 2],
     kern |-> NoKern,
     glyph |-> [c \in Chars |-> CASE c = "A" -> GlyphA(0, FALSE)
                                  [] c = "B" -> GlyphB(FALSE)
                                  [] OTHER -> GlyphSpace]] }

RECURSIVE SeqsUpTo(_)
SeqsUpTo(n) ==
  IF n = 0 THEN {<<>>}
  ELSE LET S == SeqsUpTo(n - 1)
       IN  S \cup {Append(s, c) : s \in {t \in S : Len(t) = n - 1}, c \in Chars}

Texts == SeqsUpTo(MaxLen)
Origins == {0, 1, IMax, IMax + 1, UMax}
Widths == {1, 3}
Heights == {1, 3}
Colors == {0, 255}

(* ---------------------------- surfaces --------------------------------- *)
Coords(w, h) == (0 .. w - 1) \X (0 .. h - 1)
\* the caller's image: a gradient, so that all pixels differ
Image0(w, h) == [p \in Coords(w, h) |-> 10 + 20 * p[1] + 60 * p[2]]
\* ImageBuffer::new: zeroed pixels
ImageBufferNew(w, h) == [p \in Coords(w, h) |-> 0]

(* ---------------------------- layout ----------------------------------- *)
NoGlyph == "none"

\* one step of the scan closure of draw_text_mut: the rounded width w that
\* is added to the running x after glyph g has been positioned
ScanWidth(f, last, g) ==
  Round(f.adv[g] + (IF last = NoGlyph THEN 0 ELSE f.kern[<<last, g>>]))

RECURSIVE Scan(_, _, _, _, _)
Scan(f, t, i, last, xacc) ==
  IF i > Len(t) THEN <<>>
  ELSE <<[ch |-> t[i], px |-> xacc]>>
         \o Scan(f, t, i + 1, t[i], xacc + ScanWidth(f, last, t[i]))

\* the glyph vector of draw_text_mut (offset.x = 0.0)
DrawLayout(f, t) == Scan(f, t, 1, NoGlyph, 0)

\* rusttype's Font::layout as calc_text calls it: the caret first takes the
\* kerning of (last, g), g is positioned at the caret, then the caret takes
\* g's advance width; nothing is rounded
RECURSIVE LayoutIter(_, _, _, _, _)
LayoutIter(f, t, i, last, caret) ==
  IF i > Len(t) THEN <<>>
  ELSE LET c == caret + (IF last = NoGlyph THEN 0 ELSE f.kern[<<last, t[i]>>])
       IN  <<[ch |-> t[i], px |-> c]>>
             \o LayoutIter(f, t, i + 1, t[i], c + f.adv[t[i]])

FontLayout(f, t) == LayoutIter(f, t, 1, NoGlyph, 0)

(* ---------------------------- rasterisation ---------------------------- *)
\* PositionedGlyph::pixel_bounding_box: floor of the min corner, ceil of the
\* max corner of the outline box moved to the glyph's position
pixel_bounding_box(f, g) ==
  LET b == f.glyph[g.ch].bb
  IN  IF b = None
      THEN [some |-> FALSE, minx |-> 0, miny |-> 0, maxx |-> 0, maxy |-> 0]
      ELSE [some |-> TRUE,
            minx |-> Floor(g.px + b[1]), miny |-> f.ascent + b[2],
            maxx |-> Ceil(g.px + b[3]),  maxy |-> f.ascent + b[4]]

BBWidth(bb) == bb.maxx - bb.minx
BBHeight(bb) == bb.maxy - bb.miny
\* number of times PositionedGlyph::draw calls its visitor
NumSamples(bb) == BBWidth(bb) * BBHeight(bb)

\* overlap, in half pixels, of the ink cell starting at a with pixel column c
Overlap(a, c) == Max(0, Min(a + 2, 2 * c + 2) - Max(a, 2 * c))

RECURSIVE SumOverlap(_, _, _)
SumOverlap(cells, base, c) ==
  IF cells = {} THEN 0
  ELSE LET k == CHOOSE k \in cells : TRUE
       IN  Overlap(base + 2 * k[1], c) + SumOverlap(cells \ {k}, base, c)

\* coverage of the pixel (gx, gy) of the glyph's pixel box, in halves
Coverage(f, g, bb, gx, gy) ==
  LET o == f.glyph[g.ch]
      row == gy + bb.miny - (f.ascent + o.bb[2])
  IN  SumOverlap({k \in o.ink : k[2] = row}, g.px + o.bb[1], bb.minx + gx)

\* the i-th call (row-major) of the visitor: <<gx, gy, gv>>
Sample(f, g, bb, i) ==
  LET gx == i % BBWidth(bb)
      gy == i \div BBWidth(bb)
  IN  <<gx, gy, Coverage(f, g, bb, gx, gy)>>

(* ---------------------------- the visitor closures --------------------- *)
\* lines 50-54 and 108-112: glyph-local sample coordinate plus the box
\* corner plus the origin cast to i32, as exact integers
RawCoord(gc, bbmin, origin) == WrapI32(gc + bbmin) + AsI32(origin)
\* an overflowing `+` aborts the call when overflow checks are compiled in
AddPanics(gc, bbmin, origin) ==
  Overflows(gc + bbmin) \/ Overflows(RawCoord(gc, bbmin, origin))
image_coord(gc, bbmin, origin) == WrapI32(RawCoord(gc, bbmin, origin))

\* line 59 / line 114
InBoundsNoLower(ix, iy, iw, ih) == ix < iw /\ iy < ih
InBounds(ix, iy, iw, ih) == ix >= 0 /\ ix < iw /\ iy >= 0 /\ iy < ih

\* pixelops::weighted_sum on one channel with weights in halves, clamped to
\* the subpixel range and converted back
weighted_sum(p, c, w1, w2) == Min(255, Max(0, (p * w1 + c * w2) \div 2))

\* line 61
BlendSwapped(pixel, c, gv) == weighted_sum(pixel, c, gv, 2 - gv)
Blend(pixel, c, gv) == weighted_sum(pixel, c, 2 - gv, gv)

\* Canvas::get_pixel / Canvas::draw_pixel on a grid
get_pixel(s, p) == IF p \in DOMAIN s THEN s[p] ELSE 0
draw_pixel(s, p, v) == IF p \in DOMAIN s THEN [s EXCEPT ![p] = v] ELSE s

\* lines 98-103
DrawResultSwapped(iw, ih) == [x |-> 0, y |-> 0, width |-> iw, height |-> ih]
DrawResultInit(iw, ih) == [x |-> iw, y |-> ih, width |-> 0, height |-> 0]

\* lines 118-131
TrackAnyCoverage(r, ix, iy, gv) ==
  [x |-> Min(r.x, ix), y |-> Min(r.y, iy),
   width |-> Max(r.width, ix), height |-> Max(r.height, iy)]
Track(r, ix, iy, gv) ==
  IF gv > 0
  THEN [x      |-> IF ix < r.x THEN ix ELSE r.x,
        y      |-> IF iy < r.y THEN iy ELSE r.y,
        width  |-> IF ix > r.width THEN ix ELSE r.width,
        height |-> IF iy > r.height THEN iy ELSE r.height]
  ELSE r

\* Rect::at(x, y).of_size(w, h)
RectAtOfSize(l, t, w, h) ==
  [some |-> TRUE, left |-> l, top |-> t, width |-> w, height |-> h]
NoRect == [some |-> FALSE, left |-> 0, top |-> 0, width |-> 0, height |-> 0]

\* lines 136-143
CalcReturn(r, iw, ih) ==
  IF r.width > 0 /\ r.height > 0 /\ r.x < iw /\ r.y < ih
  THEN RectAtOfSize(r.x, r.y, AsU32(r.width - r.x), AsU32(r.height - r.y))
  ELSE NoRect

\* lines 161-162: the buffer draw_text hands to draw_text_mut
DrawTextOutNoCopy(img, w, h) == ImageBufferNew(w, h)
DrawTextOut(img, w, h) ==
  [p \in DOMAIN ImageBufferNew(w, h) |-> img[p]]

(* ---------------------------- state machine ---------------------------- *)
NoResult == [x |-> 0, y |-> 0, width |-> 0, height |-> 0]

Init ==
  /\ font \in Fonts
  /\ text \in Texts
  /\ x \in Origins
  /\ y \in Origins
  /\ width \in Widths
  /\ height \in Heights
  /\ color \in Colors
  /\ debug \in BOOLEAN
  /\ surf = [n \in {"image", "canvas", "out"} |->
               IF n = "out" THEN ImageBufferNew(width, height)
               ELSE Image0(width, height)]
  /\ pc = "idle"
  /\ target = "canvas"
  /\ glyphs = <<>>
  /\ gi = 0
  /\ si = 0
  /\ result = NoResult
  /\ ret = NoRect
  /\ done = {}
  /\ written = {}
  /\ accesses = {}
  /\ skipped = FALSE
  /\ drawVisited = {}
  /\ calcVisited = {}

CurBB == pixel_bounding_box(font, glyphs[gi])
CurSample == Sample(font, glyphs[gi], CurBB, si)
HasSample == gi <= Len(glyphs) /\ CurBB.some /\ si < NumSamples(CurBB)
GlyphExhausted ==
  gi <= Len(glyphs) /\ (~CurBB.some \/ si >= NumSamples(CurBB))

\* draw_text_mut(canvas, ...) entered by the caller: lines 25-45
CallDrawTextMut ==
  /\ pc = "idle" /\ "draw_text_mut" \notin done
  /\ pc' = "draw_text_mut"
  /\ target' = "canvas"
  /\ glyphs' = DrawLayout(font, text)
  /\ gi' = 1 /\ si' = 0
  /\ UNCHANGED <<inputs, surf, result, ret, done, written, accesses, skipped,
                 drawVisited, calcVisited>>

\* draw_text: lines 161-163, up to and including the layout of the
\* draw_text_mut call on the new buffer
CallDrawText ==
  /\ pc = "idle" /\ "draw_text" \notin done
  /\ surf' = [surf EXCEPT !["out"] = DrawTextOut(surf["image"], width, height)]
  /\ pc' = "draw_text_mut"
  /\ target' = "out"
  /\ glyphs' = DrawLayout(font, text)
  /\ gi' = 1 /\ si' = 0
  /\ UNCHANGED <<inputs, result, ret, done, written, accesses, skipped,
                 drawVisited, calcVisited>>

\* one call of the closure of lines 49-64
DrawSample ==
  /\ pc = "draw_text_mut" /\ HasSample
  /\ LET bb == CurBB
         s  == CurSample
         image_x == image_coord(s[1], bb.minx, x)
         image_y == image_coord(s[2], bb.miny, y)
         image_width  == AsI32(width)
         image_height == AsI32(height)
         p == <<AsU32(image_x), AsU32(image_y)>>
     IN  IF debug /\ (AddPanics(s[1], bb.minx, x) \/ AddPanics(s[2], bb.miny, y))
         THEN /\ pc' = "panic"
              /\ UNCHANGED <<surf, si, written, accesses, skipped, drawVisited>>
         ELSE /\ pc' = pc
              /\ si' = si + 1
              /\ IF InBounds(image_x, image_y, image_width, image_height)
                 THEN /\ surf' = [surf EXCEPT ![target] =
                             draw_pixel(@, p, Blend(get_pixel(@, p), color, s[3]))]
                      /\ accesses' = accesses \cup {p}
                      /\ written' = IF target = "canvas"
                                    THEN written \cup {<<image_x, image_y>>}
                                    ELSE written
                      /\ drawVisited' = IF target = "canvas"
                                        THEN drawVisited \cup {<<image_x, image_y, s[3]>>}
                                        ELSE drawVisited
                      /\ UNCHANGED skipped
                 ELSE /\ skipped' = TRUE
                      /\ UNCHANGED <<surf, accesses, written, drawVisited>>
  /\ UNCHANGED <<inputs, target, glyphs, gi, result, ret, done, calcVisited>>

\* lines 47-48: next glyph of the loop (a glyph without a box draws nothing)
DrawNextGlyph ==
  /\ pc = "draw_text_mut" /\ GlyphExhausted
  /\ gi' = gi + 1 /\ si' = 0
  /\ UNCHANGED <<inputs, surf, pc, target, glyphs, result, ret, done, written,
                 accesses, skipped, drawVisited, calcVisited>>

\* line 67 (and line 164 when draw_text made the call)
DrawReturn ==
  /\ pc = "draw_text_mut" /\ gi > Len(glyphs)
  /\ done' = done \cup {IF target = "out" THEN "draw_text" ELSE "draw_text_mut"}
  /\ pc' = "idle" /\ target' = "canvas"
  /\ glyphs' = <<>> /\ gi' = 0 /\ si' = 0
  /\ UNCHANGED <<inputs, surf, result, ret, written, accesses, skipped,
                 drawVisited, calcVisited>>

\* calc_text entered: lines 83-103
CallCalcText ==
  /\ pc = "idle" /\ "calc_text" \notin done
  /\ pc' = "calc_text"
  /\ glyphs' = FontLayout(font, text)
  /\ gi' = 1 /\ si' = 0
  /\ result' = DrawResultInit(AsI32(width), AsI32(height))
  /\ UNCHANGED <<inputs, surf, target, ret, done, written, accesses, skipped,
                 drawVisited, calcVisited>>

\* one call of the closure of lines 107-133
CalcSample ==
  /\ pc = "calc_text" /\ HasSample
  /\ LET bb == CurBB
         s  == CurSample
         image_x == image_coord(s[1], bb.minx, x)
         image_y == image_coord(s[2], bb.miny, y)
         image_width  == AsI32(width)
         image_height == AsI32(height)
     IN  IF debug /\ (AddPanics(s[1], bb.minx, x) \/ AddPanics(s[2], bb.miny, y))
         THEN /\ pc' = "panic"
              /\ UNCHANGED <<si, result, calcVisited>>
         ELSE /\ pc' = pc
              /\ si' = si + 1
              /\ IF InBounds(image_x, image_y, image_width, image_height)
                 THEN /\ result' = Track(result, image_x, image_y, s[3])
                      /\ calcVisited' = calcVisited \cup {<<image_x, image_y, s[3]>>}
                 ELSE UNCHANGED <<result, calcVisited>>
  /\ UNCHANGED <<inputs, surf, target, glyphs, gi, ret, done, written,
                 accesses, skipped, drawVisited>>

\* lines 105-106
CalcNextGlyph ==
  /\ pc = "calc_text" /\ GlyphExhausted
  /\ gi' = gi + 1 /\ si' = 0
  /\ UNCHANGED <<inputs, surf, pc, target, glyphs, result, ret, done, written,
                 accesses, skipped, drawVisited, calcVisited>>

\* lines 136-143
CalcTextReturn ==
  /\ pc = "calc_text" /\ gi > Len(glyphs)
  /\ ret' = CalcReturn(result, AsI32(width), AsI32(height))
  /\ done' = done \cup {"calc_text"}
  /\ pc' = "idle"
  /\ glyphs' = <<>> /\ gi' = 0 /\ si' = 0
  /\ UNCHANGED <<inputs, surf, target, result, written, accesses, skipped,
                 drawVisited, calcVisited>>

Next ==
  \/ CallDrawTextMut
  \/ CallDrawText
  \/ DrawSample
  \/ DrawNextGlyph
  \/ DrawReturn
  \/ CallCalcText
  \/ CalcSample
  \/ CalcNextGlyph
  \/ CalcTextReturn

Spec == Init /\ [][Next]_vars

(* ---------------------------- properties ------------------------------- *)
Measured == "calc_text" \in done
Drawn == "draw_text_mut" \in done

SetMax(S) == CHOOSE m \in S : \A n \in S : n <= m
SetMin(S) == CHOOSE m \in S : \A n \in S : m <= n

\* C1: if draw_text_mut wrote at least one pixel, calc_text with the same
\* arguments returns a rectangle that contains every written pixel and each
\* of whose corners is a written pixel.  The rectangle is read generously:
\* its far edge may be taken at left + width - 1 or at left + width.
C1_Consistency ==
  (Drawn /\ Measured /\ written /= {}) =>
    /\ ret.some
    /\ \A p \in written :
         /\ ret.left <= p[1] /\ p[1] <= ret.left + ret.width
         /\ ret.top <= p[2] /\ p[2] <= ret.top + ret.height
    /\ \A cx \in {0, 1}, cy \in {0, 1} :
         \E p \in written :
           /\ p[1] \in (IF cx = 0 THEN {ret.left}
                        ELSE {ret.left + ret.width - 1, ret.left + ret.width})
           /\ p[2] \in (IF cy = 0 THEN {ret.top}
                        ELSE {ret.top + ret.height - 1, ret.top + ret.height})

\* C2: in the glyph vector of draw_text_mut the first glyph is at 0.0 and
\* glyph i is at the position of glyph i-1 plus
\* round(advance_width(g[i-1]) + pair_kerning(g[i-1], g[i])).
C2_LayoutPositions ==
  (pc = "draw_text_mut" /\ glyphs /= <<>>) =>
    /\ glyphs[1].px = 0
    /\ \A i \in 2 .. Len(glyphs) :
         glyphs[i].px = glyphs[i - 1].px
           + Round(font.adv[glyphs[i - 1].ch]
                   + font.kern[<<glyphs[i - 1].ch, glyphs[i].ch>>])

\* C3: every get_pixel and draw_pixel of draw_text_mut is at a coordinate
\* inside [0, width) x [0, height).
C3_ClipSafety ==
  \A p \in accesses : p[1] \in 0 .. width - 1 /\ p[2] \in 0 .. height - 1

\* a run in which some samples were composited and others were clipped
C3_Witness == accesses /= {} /\ skipped

\* C4: with the origin outside the surface (x >= width or y >= height)
\* draw_text_mut writes no pixel and calc_text returns None.
C4_FullClip ==
  (x >= width \/ y >= height) => (written = {} /\ ~ret.some)

\* C5: for the empty string draw_text_mut leaves the surface unchanged,
\* writing nothing, and calc_text returns None.
C5_EmptyInput ==
  text = <<>> =>
    /\ surf["canvas"] = Image0(width, height)
    /\ written = {} /\ accesses = {}
    /\ ~ret.some

\* both operations have run on the empty string
C5_Witness == text = <<>> /\ Drawn /\ Measured

\* every coverage sample of every glyph of the text is 0.0
AllZeroCoverage ==
  \A i \in 1 .. Len(text) :
    LET g == DrawLayout(font, text)[i]
        bb == pixel_bounding_box(font, g)
    IN  bb.some => \A k \in 0 .. NumSamples(bb) - 1 : Sample(font, g, bb, k)[3] = 0

\* C6: when every coverage sample is 0.0 the surface stays pixel-for-pixel
\* what it was before draw_text_mut, whatever the color.
C6_ZeroCoverage ==
  AllZeroCoverage => surf["canvas"] = Image0(width, height)

\* draw_text_mut has composited zero-coverage samples onto the surface
C6_Witness == AllZeroCoverage /\ Drawn /\ written /= {}

\* C7: once the glyph vector exists neither draw_text_mut nor calc_text
\* fails.
C7_NoFailure == pc /= "panic"

\* C8: calc_text and draw_text_mut lay out the same positioned glyphs and
\* visit the same in-bounds (image_x, image_y, coverage) samples.
C8_SharedLayout ==
  (Drawn /\ Measured) =>
    /\ DrawLayout(font, text) = FontLayout(font, text)
    /\ drawVisited = calcVisited

\* the samples calc_text saw inside the surface with coverage > 0.0
Inked == {s \in calcVisited : s[3] > 0}
TrackedMaxX == SetMax({s[1] : s \in Inked} \cup {0})
TrackedMaxY == SetMax({s[2] : s \in Inked} \cup {0})
TrackedMinX == SetMin({s[1] : s \in Inked} \cup {AsI32(width)})
TrackedMinY == SetMin({s[2] : s \in Inked} \cup {AsI32(height)})

\* C9: calc_text returns the rectangle at (min_x, min_y) of size
\* (max_x - min_x, max_y - min_y) exactly when max_x > 0, max_y > 0,
\* min_x < width and min_y < height, the minima starting at the surface
\* size, the maxima at 0, updated only by in-bounds samples of coverage
\* > 0.0; otherwise None.  A rectangle implies such a sample exists.
C9_BoundsRule ==
  Measured =>
    /\ ret.some <=> (/\ TrackedMaxX > 0 /\ TrackedMaxY > 0
                     /\ TrackedMinX < AsI32(width) /\ TrackedMinY < AsI32(height))
    /\ ret.some =>
         /\ ret.left = TrackedMinX /\ ret.top = TrackedMinY
         /\ ret.width = TrackedMaxX - TrackedMinX
         /\ ret.height = TrackedMaxY - TrackedMinY
         /\ Inked /= {}

\* calc_text returned a rectangle although a zero-coverage sample lay
\* outside the inked extent
C9_Witness ==
  /\ Measured /\ ret.some
  /\ \E s \in calcVisited : s[3] = 0 /\ s[1] > TrackedMaxX - 1

====
